---------------------------- MODULE Spec2Model ----------------------------
(***************************************************************************)
(* Architectural (non-speculative) behaviour of the two ret2spec demos:    *)
(*   src/demos/ret2spec_sa.cc            single process   (variant "sa")   *)
(*   src/demos/ret2spec_recursion_ca.cc  cross process    (variant "ca")   *)
(* Every process is a call stack of frames; one action is one statement    *)
(* group of the function on top of the stack.                              *)
(***************************************************************************)
EXTENDS Integers, Sequences, FiniteSets, TLC

\* ------------------------------------------------------------------ bounds
\* The model runs the programs with small values of their size parameters.
MaxDepth == 2      \* value given to kRecursionDepth (64 in the sources)
MaxCeiling == 1    \* value given to the convergence ceiling (100000 in the sources)
SecretLen == 2     \* strlen(private_data)
FrameSize == 100   \* bytes between the stack marks of two nested frames
MaxAddr == 129     \* highest address of the evictions taken alone

\* ------------------------------------------------------- program constants
kRecursionDepth == MaxDepth
kCacheLineSize == 64
ConvergenceCeiling == MaxCeiling

Bytes == {"A", "B"}
Procs == {"parent", "child"}
P == "parent"
Variants == {"sa", "ca"}
\* The mocked collaborators of the leak loop: one that decides the right byte
\* at once, one that never decides, one that answers anything.
Policies == {"first", "never", "free"}

VARIABLES
  variant,              \* which of the two programs runs
  policy,               \* which collaborator (CacheSideChannel) is plugged in
  private_data,         \* the secret, a sequence of bytes
  false_value,          \* global bool false_value
  current_offset,       \* global size_t current_offset (the victim's)
  oracle_ptr,           \* global oracle_ptr (the victim's): "null" or "oracle"
  stack_mark_pointers,  \* global std::vector<char *> (the victim's)
  stack,                \* call stack of each process
  status,               \* "none" | "running" | "exit_success" | "exit_failure"
  ret_bool,             \* bool returned by the last call of each process
  ret_char,             \* char returned by the last LeakByte call
  i,                    \* main's loop variable
  run,                  \* LeakByte's loop variable
  result,               \* LeakByte's std::pair<bool, char> result
  res,                  \* main's int res (cross-process variant)
  out,                  \* what was written to std::cout, in order
  err,                  \* what was written to std::cerr, in order
  last_evict,           \* range of the last frame eviction
  flushed,              \* addresses given to CLFlush by the last eviction
  forced_reads,         \* oracle slots read by ForceRead
  ub,                   \* back()/pop_back() was applied to an empty vector
  \* ---- history variables (observations, never read by the program)
  count,                \* per LeakByte call: FlushOracle / ReturnsTrue / AddHit calls
  calls,                \* current_offset at each LeakByte call, in order
  returned,             \* value returned by each LeakByte call, in order
  last_ret,             \* the last return of ReturnsTrue/ReturnsFalse per process
  late_calls,           \* ReturnsFalse(kRecursionDepth) begun by the child after
                        \* the parent's exit
  trial,                \* what the victim did since the last FlushOracle, in order
  \* ---- the eviction taken alone (used by EvictSpec only)
  ev                    \* inputs and results of an eviction run once and twice

consts == <<variant, policy, private_data, false_value>>
globals == <<current_offset, oracle_ptr, stack_mark_pointers>>
control == <<stack, status, ret_bool, ret_char>>
locals == <<i, run, result, res>>
io == <<out, err>>
cache == <<last_evict, flushed, forced_reads, ub>>
history == <<count, calls, returned, last_ret, late_calls>>
vars == <<consts, globals, control, locals, io, cache, history, trial, ev>>

\* ------------------------------------------------------------------ helpers
Frame(fn, pc, counter, entry) ==
  [fn |-> fn, pc |-> pc, counter |-> counter, entry |-> entry]

Top(p) == stack[p][Len(stack[p])]

At(p, fn, pc) ==
  /\ status[p] = "running"
  /\ stack[p] # <<>>
  /\ Top(p).fn = fn
  /\ Top(p).pc = pc

Goto(s, pc) == [s EXCEPT ![Len(s)].pc = pc]
CallFrom(s, pc_after, frame) == Append(Goto(s, pc_after), frame)
ReturnFrom(s) == SubSeq(s, 1, Len(s) - 1)

NoRet == [fn |-> "none", counter |-> 0, value |-> FALSE, before |-> <<>>, after |-> <<>>]
NoResult == [first |-> FALSE, second |-> "none"]
NoCount == [flush |-> 0, call |-> 0, addhit |-> 0]
NoEvict == [start |-> 0, end |-> 0]

\* an entry of the victim's trial log
Event(op, counter, start, end) ==
  [op |-> op, counter |-> counter, start |-> start, end |-> end]
Did(op) == Event(op, 0, 0, 0)
DidWith(op, counter) == Event(op, counter, 0, 0)

NoEv == [phase |-> "off", own |-> 0, tracker |-> <<>>, cache |-> {},
         once |-> [tracker |-> <<>>, cache |-> {}, flushed |-> <<>>],
         twice |-> [tracker |-> <<>>, cache |-> {}, flushed |-> <<>>]]

Text(s) == [type |-> "text", val |-> s]
Char(c) == [type |-> "char", val |-> c]

\* Address of the local stack_mark of the frame at call depth n: the stack
\* grows downward, one frame below the other.
StackTop == (2 * kRecursionDepth + 8) * FrameSize
MarkAddr(n) == StackTop - n * FrameSize

\* exit(code): the process is gone.
Exit(p, code) ==
  /\ status' = [status EXCEPT ![p] = code]
  /\ stack' = [stack EXCEPT ![p] = <<>>]


\* -------------------------------------------------------------------- Init
\* The state at the entry of main; with started false no process exists.
ProgramInit(started) ==
  /\ variant \in Variants
  /\ policy \in Policies
  /\ private_data \in [1..SecretLen -> Bytes]
  /\ false_value = FALSE
  /\ current_offset = 0
  /\ oracle_ptr = "null"
  /\ stack_mark_pointers = <<>>
  /\ stack = [p \in Procs |->
                IF p = P
                  THEN <<Frame("main", IF variant = "ca" THEN "setaffinity" ELSE "header",
                               0, <<>>)>>
                  ELSE <<>>]
  /\ status = [p \in Procs |-> IF p = P /\ started THEN "running" ELSE "none"]
  /\ ret_bool = [p \in Procs |-> FALSE]
  /\ ret_char = "none"
  /\ i = 0
  /\ run = 0
  /\ result = NoResult
  /\ res = 0
  /\ out = <<>>
  /\ err = <<>>
  /\ last_evict = NoEvict
  /\ flushed = <<>>
  /\ forced_reads = <<>>
  /\ ub = FALSE
  /\ count = NoCount
  /\ calls = <<>>
  /\ returned = <<>>
  /\ last_ret = [p \in Procs |-> NoRet]
  /\ late_calls = 0
  /\ trial = <<>>

Init == ProgramInit(TRUE) /\ ev = NoEv

\* ------------------------------------------------ main (cross-process setup)
\* sched_setaffinity succeeds (0) or fails (-1).
AffinityResults == {0, 0 - 1}

\* A check that takes only positive results for failures.
AffinityFailed_positive(r) == r > 0

AffinityFailed(r) == r # 0

\* int res = sched_setaffinity(getpid(), sizeof(set), &set);
MainSetAffinity ==
  /\ At(P, "main", "setaffinity")
  /\ res' \in AffinityResults
  /\ stack' = [stack EXCEPT ![P] = Goto(@, "checkaffinity")]
  /\ UNCHANGED <<consts, ev, trial, globals, status, ret_bool, ret_char, i, run, result, io,
                 cache, history>>

\* if (res != 0) { std::cout << "CPU affinity setup failed."; exit(EXIT_FAILURE); }
MainCheckAffinity ==
  /\ At(P, "main", "checkaffinity")
  /\ IF AffinityFailed(res)
       THEN /\ out' = Append(out, Text("CPU affinity setup failed."))
            /\ Exit(P, "exit_failure")
       ELSE /\ out' = out
            /\ stack' = [stack EXCEPT ![P] = Goto(@, "fork")]
            /\ status' = status
  /\ UNCHANGED <<consts, ev, trial, globals, ret_bool, ret_char, locals, err, cache, history>>

\* fork() gives 0 in a new child, the child's pid in the parent, or -1 in the
\* parent when no child could be made; the parent then takes the else branch
\* alone.
ForkResults == {"forked", "failed"}

MainFork ==
  /\ At(P, "main", "fork")
  /\ \E f \in ForkResults :
       /\ stack' = [stack EXCEPT
                      ![P] = Goto(@, "header"),
                      !["child"] = IF f = "forked"
                                     THEN <<Frame("main", "child_call", 0, <<>>)>>
                                     ELSE <<>>]
       /\ status' = [status EXCEPT
                       !["child"] = IF f = "forked" THEN "running" ELSE "none"]
  /\ UNCHANGED <<consts, ev, trial, globals, ret_bool, ret_char, locals, io, cache, history>>

\* ------------------------------------------------------ main (the leak run)
\* std::cout << "Leaking the string: "; and the for loop's  size_t i = 0
MainHeader ==
  /\ At(P, "main", "header")
  /\ out' = Append(out, Text("Leaking the string: "))
  /\ i' = 0
  /\ stack' = [stack EXCEPT ![P] = Goto(@, "loop")]
  /\ UNCHANGED <<consts, ev, trial, globals, status, ret_bool, ret_char, run, result, res, err,
                 cache, history>>

strlen(s) == Len(s)

LoopCondition(k) == k < strlen(private_data)

\* A loop step that skips every other offset.
NextOffset_skip(k) == k + 2

NextOffset(k) == k + 1

\* for (...; i < strlen(private_data); ...) { current_offset = i; ... LeakByte()
\* LeakByte's entry: CacheSideChannel sidechannel; oracle_ptr = &...; run = 0
MainLoop ==
  /\ At(P, "main", "loop")
  /\ IF LoopCondition(i)
       THEN /\ current_offset' = i
            /\ oracle_ptr' = "oracle"
            /\ run' = 0
            /\ stack' = [stack EXCEPT
                           ![P] = CallFrom(@, "emit", Frame("LeakByte", "flush", 0, <<>>))]
            /\ count' = NoCount
            /\ calls' = Append(calls, i)
       ELSE /\ stack' = [stack EXCEPT ![P] = Goto(@, "done")]
            /\ UNCHANGED <<current_offset, oracle_ptr, run, count, calls>>
  /\ UNCHANGED <<consts, ev, trial, stack_mark_pointers, status, ret_bool, ret_char, i, result,
                 res, io, cache, returned, last_ret, late_calls>>

\* std::cout << LeakByte();  ++i
MainEmit ==
  /\ At(P, "main", "emit")
  /\ out' = Append(out, Char(ret_char))
  /\ i' = NextOffset(i)
  /\ stack' = [stack EXCEPT ![P] = Goto(@, "loop")]
  /\ UNCHANGED <<consts, ev, trial, globals, status, ret_bool, ret_char, run, result, res, err,
                 cache, history>>

\* std::cout << "\nDone!\n"; and main returns: the process ends with success.
MainDone ==
  /\ At(P, "main", "done")
  /\ out' = Append(out, Text("Done!"))
  /\ Exit(P, "exit_success")
  /\ UNCHANGED <<consts, ev, trial, globals, ret_bool, ret_char, locals, err, cache, history>>


\* ------------------------------------------------------------------ LeakByte
\* sidechannel.FlushOracle();  (the previous iteration's result is out of scope)
LeakByteFlush ==
  /\ At(P, "LeakByte", "flush")
  /\ trial' = <<Did("FlushOracle")>>
  /\ count' = [count EXCEPT !.flush = @ + 1]
  /\ result' = NoResult
  /\ stack' = [stack EXCEPT ![P] = Goto(@, "push")]
  /\ UNCHANGED <<consts, ev, globals, status, ret_bool, ret_char, i, run, res, io, cache,
                 calls, returned, last_ret, late_calls>>

\* A push_back that loses the mark.
PushBack_drop(v, a) == v

\* stack_mark_pointers.push_back(&stack_mark);
PushBack(v, a) == Append(v, a)

\* A LeakByte that pushes no mark of its own.
PushSentinel_missing(v, a) == v

\* The stack mark for the first call of ReturnsTrue.
PushSentinel(v, a) == PushBack(v, a)

\* char stack_mark = 'a'; stack_mark_pointers.push_back(&stack_mark);
LeakBytePush ==
  /\ At(P, "LeakByte", "push")
  /\ trial' = Append(trial, Did("push_sentinel"))
  /\ stack_mark_pointers' = PushSentinel(stack_mark_pointers, MarkAddr(Len(stack[P])))
  /\ stack' = [stack EXCEPT ![P] = Goto(@, "call")]
  /\ UNCHANGED <<consts, ev, current_offset, oracle_ptr, status, ret_bool, ret_char, locals,
                 io, cache, history>>

\* A LeakByte without the pop_back that follows the call.
AfterReturnsTrue_addhit == "addhit"

\* The statement LeakByte goes on with when ReturnsTrue has returned.
AfterReturnsTrue == "pop"

\* ReturnsTrue(kRecursionDepth);
LeakByteCall ==
  /\ At(P, "LeakByte", "call")
  /\ trial' = Append(trial, DidWith("ReturnsTrue", kRecursionDepth))
  /\ stack' = [stack EXCEPT
                 ![P] = CallFrom(@, AfterReturnsTrue,
                                 Frame("ReturnsTrue", "enter", kRecursionDepth,
                                       stack_mark_pointers))]
  /\ count' = [count EXCEPT !.call = @ + 1]
  /\ last_ret' = [last_ret EXCEPT ![P] = NoRet]
  /\ UNCHANGED <<consts, ev, globals, status, ret_bool, ret_char, locals, io, cache,
                 calls, returned, late_calls>>

\* A pop_back that leaves the mark in place.
PopBack_keep(v) == v

\* stack_mark_pointers.pop_back();  (undefined on an empty vector)
PopBack(v) == SubSeq(v, 1, Len(v) - 1)

LeakBytePop ==
  /\ At(P, "LeakByte", "pop")
  /\ trial' = Append(trial, Did("pop_sentinel"))
  /\ stack_mark_pointers' = PopBack(stack_mark_pointers)
  /\ ub' = (ub \/ stack_mark_pointers = <<>>)
  /\ stack' = [stack EXCEPT ![P] = Goto(@, "addhit")]
  /\ UNCHANGED <<consts, ev, current_offset, oracle_ptr, status, ret_bool, ret_char, locals,
                 io, last_evict, flushed, forced_reads, history>>

\* CacheSideChannel::AddHitAndRecomputeScores() -> (decided, byte guess): the
\* answers the plugged-in collaborator may give.
AddHitAndRecomputeScores ==
  CASE policy = "first" ->
         {[first |-> TRUE, second |-> private_data[current_offset + 1]]}
    [] policy = "never" ->
         {[first |-> FALSE, second |-> b] : b \in Bytes}
    [] OTHER ->
         {[first |-> d, second |-> b] : d \in BOOLEAN, b \in Bytes}

\* std::pair<bool, char> result = sidechannel.AddHitAndRecomputeScores();
LeakByteAddHit ==
  /\ At(P, "LeakByte", "addhit")
  /\ trial' = Append(trial, Did("AddHitAndRecomputeScores"))
  /\ result' \in AddHitAndRecomputeScores
  /\ count' = [count EXCEPT !.addhit = @ + 1]
  /\ stack' = [stack EXCEPT ![P] = Goto(@, "decided")]
  /\ UNCHANGED <<consts, ev, globals, status, ret_bool, ret_char, i, run, res, io, cache,
                 calls, returned, last_ret, late_calls>>

\* The decision read the wrong way round.
Decided_negated(r) == ~r.first

Decided(r) == r.first

\* if (result.first) { return result.second; }
LeakByteDecided ==
  /\ At(P, "LeakByte", "decided")
  /\ IF Decided(result)
       THEN /\ ret_char' = result.second
            /\ returned' = Append(returned, result.second)
            /\ stack' = [stack EXCEPT ![P] = ReturnFrom(@)]
       ELSE /\ stack' = [stack EXCEPT ![P] = Goto(@, "guard")]
            /\ UNCHANGED <<ret_char, returned>>
  /\ UNCHANGED <<consts, ev, trial, globals, status, ret_bool, locals, io, cache, count, calls,
                 last_ret, late_calls>>

\* A guard that never gives up.
RunExceedsCeiling_never(r) == FALSE

\* The guard with >= for >.
RunExceedsCeiling_ge(r) == r >= ConvergenceCeiling

RunExceedsCeiling(r) == r > ConvergenceCeiling

\* A report that leaves the guess out.
ConvergenceReport_noguess(r) == <<Text("Does not converge ")>>

\* std::cerr << "Does not converge " << result.second << std::endl;
ConvergenceReport(r) == <<Text("Does not converge "), Char(r.second)>>

\* exit(EXIT_SUCCESS) on the convergence failure.
ConvergenceExitCode_success == "exit_success"

ConvergenceExitCode == "exit_failure"

\* if (run > 100000) { std::cerr << ...; exit(EXIT_FAILURE); }  then ++run
LeakByteGuard ==
  /\ At(P, "LeakByte", "guard")
  /\ IF RunExceedsCeiling(run)
       THEN /\ err' = err \o ConvergenceReport(result)
            /\ Exit(P, ConvergenceExitCode)
            /\ run' = run
       ELSE /\ run' = run + 1
            /\ stack' = [stack EXCEPT ![P] = Goto(@, "flush")]
            /\ UNCHANGED <<err, status>>
  /\ UNCHANGED <<consts, ev, trial, globals, ret_bool, ret_char, i, result, res, out, cache,
                 history>>

\* --------------------------------------------------------------- ReturnsTrue
\* char stack_mark = 'a'; stack_mark_pointers.push_back(&stack_mark);
ReturnsTrueEnter ==
  /\ At(P, "ReturnsTrue", "enter")
  /\ trial' = Append(trial, DidWith("push_mark", Top(P).counter))
  /\ stack_mark_pointers' = PushBack(stack_mark_pointers, MarkAddr(Len(stack[P])))
  /\ stack' = [stack EXCEPT ![P] = Goto(@, "branch")]
  /\ UNCHANGED <<consts, ev, current_offset, oracle_ptr, status, ret_bool, ret_char, locals,
                 io, cache, history>>

\* A ReturnsTrue that never recurses.
Recurse_never(counter) == FALSE

Recurse(counter) == counter > 0

\* A base case that hands its own counter to ReturnsFalse.
BaseCaseDepth_counter(counter) == counter

\* The argument of the base case's call: ReturnsFalse(kRecursionDepth).
BaseCaseDepth(counter) == kRecursionDepth

\* if (counter > 0) ReturnsTrue(counter - 1);
\* else  single process: ReturnsFalse(kRecursionDepth);  cross process: sched_yield();
ReturnsTrueBranch ==
  /\ At(P, "ReturnsTrue", "branch")
  /\ IF Recurse(Top(P).counter)
       THEN /\ stack' = [stack EXCEPT
                           ![P] = CallFrom(@, "pop",
                                           Frame("ReturnsTrue", "enter", Top(P).counter - 1,
                                                 stack_mark_pointers))]
            /\ last_ret' = [last_ret EXCEPT ![P] = NoRet]
            /\ trial' = Append(trial, DidWith("ReturnsTrue", Top(P).counter - 1))
       ELSE IF variant = "sa"
              THEN /\ stack' = [stack EXCEPT
                                  ![P] = CallFrom(@, "pop",
                                                  Frame("ReturnsFalse", "test",
                                                        BaseCaseDepth(Top(P).counter),
                                                        <<>>))]
                   /\ last_ret' = [last_ret EXCEPT ![P] = NoRet]
                   /\ trial' = Append(trial, DidWith("ReturnsFalse",
                                                     BaseCaseDepth(Top(P).counter)))
              ELSE /\ stack' = [stack EXCEPT ![P] = Goto(@, "pop")]
                   /\ last_ret' = last_ret
                   /\ trial' = Append(trial, Did("sched_yield"))
  /\ UNCHANGED <<consts, ev, globals, status, ret_bool, ret_char, locals, io, cache, count,
                 calls, returned, late_calls>>

\* stack_mark_pointers.pop_back();
ReturnsTruePop ==
  /\ At(P, "ReturnsTrue", "pop")
  /\ trial' = Append(trial, DidWith("pop_mark", Top(P).counter))
  /\ stack_mark_pointers' = PopBack(stack_mark_pointers)
  /\ ub' = (ub \/ stack_mark_pointers = <<>>)
  /\ stack' = [stack EXCEPT ![P] = Goto(@, "evict")]
  /\ UNCHANGED <<consts, ev, current_offset, oracle_ptr, status, ret_bool, ret_char, locals,
                 io, last_evict, flushed, forced_reads, history>>

\* stack_mark_pointers.back()  (undefined on an empty vector: any address)
Back(v) == IF v = <<>> THEN {MarkAddr(n) : n \in 0..(2 * kRecursionDepth + 8)}
                       ELSE {v[Len(v)]}

RECURSIVE FlushLoop(_, _, _)
\* for (int i = 0; i < (back - &stack_mark); i += kCacheLineSize) CLFlush(&stack_mark + i);
FlushLoop(own, parent, k) ==
  IF k < parent - own
    THEN <<own + k>> \o FlushLoop(own, parent, k + kCacheLineSize)
    ELSE <<>>

\* FlushFromDataCache(start, end) of the single-process variant: the range in
\* line-size steps, then its end.
FlushFromDataCache(start, end) == FlushLoop(start, end, 0) \o <<end>>

\* An eviction that leaves out the CLFlush of the caller's mark.
Evicted_noparent(own, parent) ==
  IF variant = "ca" THEN FlushLoop(own, parent, 0) ELSE FlushFromDataCache(own, parent)

\* The addresses flushed, in order. The cross-process eviction: the loop, then
\* CLFlush(stack_mark_pointers.back()). The single-process one hands the range
\* to FlushFromDataCache(start, end).
Evicted(own, parent) ==
  IF variant = "ca" THEN FlushLoop(own, parent, 0) \o <<parent>>
                    ELSE FlushFromDataCache(own, parent)

\* An eviction that pops the mark it has just used as the end of its range.
Eviction_popping(t, own, parent) ==
  [tracker |-> PopBack(t), flushed |-> Evicted(own, parent)]

\* The eviction of the frame whose mark is own, with parent the tracker's top:
\* the tracker is read, not written.
Eviction(t, own, parent) == [tracker |-> t, flushed |-> Evicted(own, parent)]

\* the cache line of an address
Line(a) == a \div kCacheLineSize

\* CLFlush(a) on a data cache holding the lines c
CLFlush(c, a) == c \ {Line(a)}

RECURSIVE FlushAll(_, _)
FlushAll(c, addrs) ==
  IF addrs = <<>> THEN c ELSE FlushAll(CLFlush(c, Head(addrs)), Tail(addrs))

ReturnsTrueValue == TRUE

\* the eviction and  return true;
ReturnsTrueEvict ==
  /\ At(P, "ReturnsTrue", "evict")
  /\ \E parent \in Back(stack_mark_pointers) :
       LET own == MarkAddr(Len(stack[P]))
           e == Eviction(stack_mark_pointers, own, parent)
       IN
         /\ last_evict' = [start |-> own, end |-> parent]
         /\ flushed' = e.flushed
         /\ stack_mark_pointers' = e.tracker
         /\ trial' = Append(trial, Event("evict", Top(P).counter, own, parent))
  /\ ub' = (ub \/ stack_mark_pointers = <<>>)
  /\ ret_bool' = [ret_bool EXCEPT ![P] = ReturnsTrueValue]
  /\ last_ret' = [last_ret EXCEPT
                    ![P] = [fn |-> "ReturnsTrue", counter |-> Top(P).counter,
                            value |-> ReturnsTrueValue, before |-> Top(P).entry,
                            after |-> stack_mark_pointers']]
  /\ stack' = [stack EXCEPT ![P] = ReturnFrom(@)]
  /\ UNCHANGED <<consts, ev, current_offset, oracle_ptr, status, ret_char, locals, io, forced_reads, count,
                 calls, returned, late_calls>>


\* -------------------------------------------------------------- ReturnsFalse
\* The globals the process p reads: the child holds the copies fork() gave it
\* (current_offset still 0, oracle_ptr still null).
OffsetOf(p) == IF p = P THEN current_offset ELSE 0

\* ReturnsFalse returning the negation of false_value.
ReturnsFalseValue_negated == ~false_value

ReturnsFalseValue == false_value

\* return false_value;
ReturnFalse(p) ==
  /\ ret_bool' = [ret_bool EXCEPT ![p] = ReturnsFalseValue]
  /\ last_ret' = [last_ret EXCEPT
                    ![p] = [fn |-> "ReturnsFalse", counter |-> Top(p).counter,
                            value |-> ReturnsFalseValue, before |-> <<>>, after |-> <<>>]]
  /\ stack' = [stack EXCEPT ![p] = ReturnFrom(@)]
  /\ trial' = IF p = P /\ stack[p][Len(stack[p]) - 1].fn = "ReturnsTrue"
                THEN Append(trial, DidWith("ReturnsFalse returned", Top(p).counter))
                ELSE trial

\* if (counter > 0) { if (ReturnsFalse(counter - 1)) ...
\* else { sched_yield(); (cross process only) }  return false_value;
ReturnsFalseTest(p) ==
  /\ At(p, "ReturnsFalse", "test")
  /\ IF Recurse(Top(p).counter)
       THEN /\ stack' = [stack EXCEPT
                           ![p] = CallFrom(@, "after",
                                           Frame("ReturnsFalse", "test", Top(p).counter - 1,
                                                 <<>>))]
            /\ last_ret' = [last_ret EXCEPT ![p] = NoRet]
            /\ ret_bool' = ret_bool
            /\ trial' = trial
       ELSE ReturnFalse(p)
  /\ UNCHANGED <<consts, ev, globals, status, ret_char, locals, io, cache, count, calls,
                 returned, late_calls>>

\* The condition taken the wrong way round.
DeadCodeTaken_inverted(p) == ~ret_bool[p]

\* The value of the condition  if (ReturnsFalse(counter - 1))
DeadCodeTaken(p) == ret_bool[p]

\* ... { ForceRead(oracle.data() + private_data[current_offset]);
\*       std::cout << "Dead code. Must not be printed."; exit(EXIT_FAILURE); } }
\* return false_value;
ReturnsFalseAfter(p) ==
  /\ At(p, "ReturnsFalse", "after")
  /\ IF DeadCodeTaken(p)
       THEN /\ forced_reads' = Append(forced_reads,
                                      [proc |-> p, slot |-> private_data[OffsetOf(p) + 1]])
            /\ out' = Append(out, Text("Dead code. Must not be printed."))
            /\ Exit(p, "exit_failure")
            /\ UNCHANGED <<ret_bool, last_ret, trial>>
       ELSE /\ ReturnFalse(p)
            /\ UNCHANGED <<forced_reads, out, status>>
  /\ UNCHANGED <<consts, ev, globals, ret_char, locals, err, last_evict, flushed, ub, count,
                 calls, returned, late_calls>>

\* ------------------------------------------------------ main (in the child)
\* pid_t ppid = getpid(); taken by the parent before the fork.
ppid == "pid_parent"

\* getppid() in the child: the parent while it lives, then whoever adopts
\* the orphan.
getppid == IF status[P] = "running" THEN "pid_parent" ELSE "pid_init"

\* The liveness check with == for !=.
ParentChanged_equal(now, recorded) == now = recorded

ParentChanged(now, recorded) == now # recorded

\* while (true) { ReturnsFalse(kRecursionDepth); ...
ChildCall ==
  /\ At("child", "main", "child_call")
  /\ stack' = [stack EXCEPT
                 !["child"] = CallFrom(@, "child_check",
                                       Frame("ReturnsFalse", "test", kRecursionDepth, <<>>))]
  /\ last_ret' = [last_ret EXCEPT !["child"] = NoRet]
  /\ late_calls' = IF status[P] = "running" THEN late_calls ELSE late_calls + 1
  /\ UNCHANGED <<consts, ev, trial, globals, status, ret_bool, ret_char, locals, io, cache, count,
                 calls, returned>>

\* ... if (getppid() != ppid) { exit(EXIT_SUCCESS); } }
ChildCheck ==
  /\ At("child", "main", "child_check")
  /\ IF ParentChanged(getppid, ppid)
       THEN Exit("child", "exit_success")
       ELSE /\ stack' = [stack EXCEPT !["child"] = Goto(@, "child_call")]
            /\ status' = status
  /\ UNCHANGED <<consts, ev, trial, globals, ret_bool, ret_char, locals, io, cache, history>>

\* ------------------------------------------------------------ specification
ParentStep ==
  \/ MainSetAffinity
  \/ MainCheckAffinity
  \/ MainFork
  \/ MainHeader
  \/ MainLoop
  \/ MainEmit
  \/ MainDone
  \/ LeakByteFlush
  \/ LeakBytePush
  \/ LeakByteCall
  \/ LeakBytePop
  \/ LeakByteAddHit
  \/ LeakByteDecided
  \/ LeakByteGuard
  \/ ReturnsTrueEnter
  \/ ReturnsTrueBranch
  \/ ReturnsTruePop
  \/ ReturnsTrueEvict
  \/ ReturnsFalseTest(P)
  \/ ReturnsFalseAfter(P)

ChildStep ==
  \/ ChildCall
  \/ ChildCheck
  \/ ReturnsFalseTest("child")
  \/ ReturnsFalseAfter("child")

Next == ParentStep \/ ChildStep

Spec == Init /\ [][Next]_vars

\* Both processes are runnable on the one core they are pinned to, and the
\* scheduler lets each of them run again and again.
FairSpec == Spec /\ WF_vars(ParentStep) /\ WF_vars(ChildStep)

\* ------------------------------------------------- the eviction taken alone
\* The eviction of ReturnsTrue applied to any frame mark own below a caller's
\* mark parent, on any data cache, with no process running: once, and then
\* once more on what the first run left.
Lines == {Line(a) : a \in 0..MaxAddr}

EvictInit ==
  /\ ProgramInit(FALSE)
  /\ policy = "free"
  /\ private_data = [k \in 1..SecretLen |-> "A"]
  /\ \E own \in 0..MaxAddr, c \in SUBSET Lines :
       \E parent \in (own + 1)..MaxAddr :
         ev = [NoEv EXCEPT !.phase = "drawn", !.own = own,
                           !.tracker = <<MaxAddr, parent>>, !.cache = c]

\* the eviction on the tracker t and the cache c
EvictRun(t, c, own) ==
  {[tracker |-> e.tracker, cache |-> FlushAll(c, e.flushed), flushed |-> e.flushed] :
     e \in {Eviction(t, own, parent) : parent \in Back(t)}}

EvictOnce ==
  /\ ev.phase = "drawn"
  /\ \E r \in EvictRun(ev.tracker, ev.cache, ev.own) :
       ev' = [ev EXCEPT !.phase = "once", !.once = r]
  /\ UNCHANGED <<consts, globals, control, locals, io, cache, history, trial>>

EvictAgain ==
  /\ ev.phase = "once"
  /\ \E r \in EvictRun(ev.once.tracker, ev.once.cache, ev.own) :
       ev' = [ev EXCEPT !.phase = "twice", !.twice = r]
  /\ UNCHANGED <<consts, globals, control, locals, io, cache, history, trial>>

EvictNext == EvictOnce \/ EvictAgain

EvictSpec == EvictInit /\ [][EvictNext]_vars


\* ================================================================== claims
Exited(p) == status[p] \in {"exit_success", "exit_failure"}

\* a frame of fn with this counter is live on p's stack
Live(p, fn, d) ==
  \E k \in DOMAIN stack[p] : stack[p][k].fn = fn /\ stack[p][k].counter = d

\* the call of fn with this counter has returned, and nothing was called since
Returned(p, fn, d) == last_ret[p].fn = fn /\ last_ret[p].counter = d

\* a step that ends the call of fn with this counter ends it by its return
Ends(p, fn, d) == Live(p, fn, d) /\ ~Live(p, fn, d)' => Returned(p, fn, d)'

C1_ReturnOK ==
  last_ret[P].fn = "ReturnsTrue" =>
    /\ last_ret[P].value = TRUE
    /\ last_ret[P].before # <<>>
    /\ last_ret[P].after = last_ret[P].before

\* C1: every call ReturnsTrue(d), 0 <= d <= kRecursionDepth, made with a
\* non-empty mark tracker, ends (under fair scheduling) and ends by returning,
\* never by an exit of the process, returns true, and
\* leaves stack_mark_pointers with the length and contents it had at the call,
\* in both variants.
C1_ReturnsTrue ==
  /\ []C1_ReturnOK
  /\ [][\A d \in 0..kRecursionDepth : Ends(P, "ReturnsTrue", d)]_vars
  /\ \A d \in 0..kRecursionDepth : []<>~Live(P, "ReturnsTrue", d)

C1_Witness ==
  /\ variant = "sa"
  /\ Returned(P, "ReturnsTrue", kRecursionDepth)
  /\ Len(last_ret[P].before) = 1
  /\ ret_bool[P]

C2_ReturnOK ==
  \A p \in Procs : last_ret[p].fn = "ReturnsFalse" => last_ret[p].value = FALSE

\* C2: every call ReturnsFalse(d), 0 <= d <= kRecursionDepth, ends (under
\* fair scheduling), ends by returning and returns false, in the victim of
\* the single-process variant and in the child of the cross-process one;
\* false_value is never written.
C2_ReturnsFalse ==
  /\ []C2_ReturnOK
  /\ [][false_value' = false_value]_vars
  /\ [][\A p \in Procs : \A d \in 0..kRecursionDepth : Ends(p, "ReturnsFalse", d)]_vars
  /\ \A p \in Procs : \A d \in 0..kRecursionDepth : []<>~Live(p, "ReturnsFalse", d)

C2_Witness ==
  /\ variant = "ca"
  /\ Returned("child", "ReturnsFalse", kRecursionDepth)
  /\ ~ret_bool["child"]
  /\ At("child", "main", "child_check")


\* The fatal convergence failure of LeakByte was raised: std::cerr is written
\* nowhere else.
ConvergenceExceeded == err # <<>>

\* trials performed by the current LeakByte call
Trials == count.addhit

\* C3 as stated: with a collaborator that never decides, the failure is raised
\* when the trial count of the offset is ceiling + 1.
C3_Original ==
  (policy = "never" /\ ConvergenceExceeded) => Trials = ConvergenceCeiling + 1

\* C3, amended: with a collaborator that never decides, the failure is raised
\* exactly when the trial count of the offset is ceiling + 2 (run, which is
\* one less than the trial count, must exceed the ceiling): never after fewer
\* trials, and no trial follows the one numbered ceiling + 2.
C3_ConvergenceAtCeilingPlus2 ==
  policy = "never" =>
    /\ Trials <= ConvergenceCeiling + 2
    /\ ConvergenceExceeded => Trials = ConvergenceCeiling + 2
    /\ (Trials = ConvergenceCeiling + 2 /\ ~ConvergenceExceeded) =>
         (At(P, "LeakByte", "decided") \/ At(P, "LeakByte", "guard"))
    /\ (At(P, "LeakByte", "guard") \/ ConvergenceExceeded) => Trials = run + 1

C3_Witness ==
  /\ policy = "never"
  /\ ConvergenceExceeded
  /\ status[P] = "exit_failure"
  /\ Trials = ConvergenceCeiling + 2

\* C4: with a collaborator that decides (true, secret[offset]) at once,
\* LeakByte returns that byte after exactly one FlushOracle, one top-level
\* ReturnsTrue(kRecursionDepth) and one AddHitAndRecomputeScores, for every
\* offset, and the convergence failure is never raised.
C4_OneTrialPerOffset ==
  policy = "first" =>
    /\ ~ConvergenceExceeded
    /\ status[P] # "exit_failure" \/ res # 0
    /\ count.flush <= 1 /\ count.call <= 1 /\ count.addhit <= 1
    /\ run = 0
    /\ At(P, "main", "emit") =>
         /\ count = [flush |-> 1, call |-> 1, addhit |-> 1]
         /\ ret_char = private_data[current_offset + 1]
    /\ \A k \in DOMAIN returned : returned[k] = private_data[k]
    /\ Len(returned) \in {Len(calls) - 1, Len(calls)}

C4_Witness ==
  /\ policy = "first"
  /\ At(P, "main", "emit")
  /\ current_offset = SecretLen - 1
  /\ Len(returned) = SecretLen
  /\ count.addhit = 1

\* a pollution run is under way: the sentinel is pushed and not yet popped
InRun ==
  /\ Len(stack[P]) >= 2
  /\ stack[P][2].fn = "LeakByte"
  /\ stack[P][2].pc \in {"call", "pop"}

\* the ReturnsTrue frames that are live
LiveDepth ==
  Cardinality({k \in DOMAIN stack[P] : stack[P][k].fn = "ReturnsTrue"})

\* the ReturnsTrue frames whose mark is on the tracker: pushed, not yet popped
MarkedDepth ==
  Cardinality({k \in DOMAIN stack[P] :
                 stack[P][k].fn = "ReturnsTrue" /\ stack[P][k].pc \in {"branch", "pop"}})

\* C5 as stated: during a pollution run the tracker's length is the number of
\* live ReturnsTrue frames, and the tracker is empty only outside a run.
C5_Original ==
  /\ InRun => Len(stack_mark_pointers) = LiveDepth
  /\ stack_mark_pointers = <<>> => ~InRun

\* C5, amended: during a pollution run the tracker's length is one (the
\* sentinel) plus the number of ReturnsTrue frames that have pushed and not yet
\* popped their mark, which lies between the live depth and the live depth
\* plus one; the tracker is empty exactly outside a run.
C5_TrackerLength ==
  /\ InRun =>
       /\ Len(stack_mark_pointers) = 1 + MarkedDepth
       /\ LiveDepth <= Len(stack_mark_pointers)
       /\ Len(stack_mark_pointers) <= LiveDepth + 1
  /\ stack_mark_pointers = <<>> <=> ~InRun
  /\ ~ub

C5_Witness ==
  /\ InRun
  /\ LiveDepth = kRecursionDepth + 1
  /\ Len(stack_mark_pointers) = kRecursionDepth + 2


\* the leaked bytes written to std::cout, in order
OutChars ==
  LET cs == SelectSeq(out, LAMBDA t : t.type = "char")
  IN  [k \in DOMAIN cs |-> cs[k].val]

DoneEmitted == \E k \in DOMAIN out : out[k] = Text("Done!")

C6_InOrder ==
  /\ calls = [k \in 1..Len(calls) |-> k - 1]
  /\ Len(calls) <= strlen(private_data)
  /\ ~Exited(P) => current_offset = (IF calls = <<>> THEN 0 ELSE Len(calls) - 1)
  /\ Len(returned) \in {Len(calls) - 1, Len(calls)}
  /\ Len(OutChars) \in {Len(returned) - 1, Len(returned)}
  /\ OutChars = SubSeq(returned, 1, Len(OutChars))
  /\ DoneEmitted =>
       /\ out[Len(out)] = Text("Done!")
       /\ Len(OutChars) = strlen(private_data)
       /\ status[P] = "exit_success"
  /\ status[P] = "exit_success" =>
       /\ Len(calls) = strlen(private_data)
       /\ out = <<Text("Leaking the string: ")>>
                  \o [k \in DOMAIN returned |-> Char(returned[k])]
                  \o <<Text("Done!")>>
       /\ policy = "first" => OutChars = private_data

\* C6: main calls LeakByte once per offset, with current_offset = 0, 1, ...,
\* length-1 in this order, writes each returned byte in the same order, writes
\* the completion marker only after the last byte and then exits with
\* success; with the collaborator that decides the right byte at once the
\* bytes written are the secret; the secret is never written to.
C6_LeakInOffsetOrder ==
  /\ []C6_InOrder
  /\ [][private_data' = private_data]_vars

C6_Witness ==
  /\ policy = "first"
  /\ private_data[1] = "A" /\ private_data[2] = "B"
  /\ status[P] = "exit_success"
  /\ SubSeq(OutChars, 1, 2) = <<"A", "B">>
  /\ DoneEmitted

C7_Aborted ==
  ConvergenceExceeded =>
    /\ status[P] = "exit_failure"
    /\ Len(calls) = current_offset + 1
    /\ calls[Len(calls)] = current_offset
    /\ Len(OutChars) = current_offset
    /\ Len(returned) = current_offset
    /\ ~DoneEmitted
    /\ policy = "never" => current_offset = 0

\* C7: when the collaborator never decides at offset k the run is aborted
\* with failure status at offset k: nothing is written for offset k or a later
\* one, LeakByte is not entered again, the completion marker is never
\* written; with the collaborator that never decides, the leak run, once
\* started, is aborted at offset 0.
C7_AbortAtOffset ==
  /\ []C7_Aborted
  /\ (policy = "never" /\ At(P, "main", "header")) ~> (ConvergenceExceeded /\ current_offset = 0)

C7_Witness ==
  /\ ConvergenceExceeded
  /\ status[P] = "exit_failure"
  /\ current_offset = 1
  /\ Len(OutChars) = 1

\* C8 as stated: the failure report holds the offset that failed to converge
\* and the last undecided guess.
C8_Original ==
  ConvergenceExceeded =>
    /\ \E k \in DOMAIN err : err[k].type = "size_t" /\ err[k].val = current_offset
    /\ \E k \in DOMAIN err : err[k] = Char(result.second)

\* C8, amended: the failure report is the text "Does not converge " followed
\* by the last undecided guess the collaborator returned, and nothing else: it
\* does not hold the offset.
C8_ReportsGuessOnly ==
  ConvergenceExceeded =>
    /\ err = <<Text("Does not converge "), Char(result.second)>>
    /\ ~result.first
    /\ result.second \in Bytes
    /\ \A k \in DOMAIN err : err[k].type # "size_t"

C8_Witness ==
  /\ ConvergenceExceeded
  /\ err[2] = Char("B")
  /\ result = [first |-> FALSE, second |-> "B"]

C9_Safe ==
  /\ late_calls <= 1
  /\ Exited("child") => (status["child"] = "exit_success" /\ Exited(P))

\* the child's liveness check made after the parent's exit ends the child
C9_CheckEnds ==
  (At("child", "main", "child_check") /\ Exited(P) /\ stack["child"]' # stack["child"])
    => status["child"]' = "exit_success"

\* C9: once the parent has exited (by success or by failure) the child's
\* next liveness check finds getppid() # ppid and the child exits with
\* success; it begins at most one ReturnsFalse(kRecursionDepth) after the
\* parent's exit, never exits while the parent runs, and under fair
\* scheduling it does exit.
C9_PolluterStops ==
  /\ []C9_Safe
  /\ [][C9_CheckEnds]_vars
  /\ (status["child"] = "running" /\ Exited(P)) ~> (status["child"] = "exit_success")

C9_Witness ==
  /\ status["child"] = "exit_success"
  /\ late_calls = 1
  /\ ConvergenceExceeded

C10_NoLeakAttempt ==
  res # 0 =>
    /\ At(P, "main", "checkaffinity") \/ status[P] = "exit_failure"
    /\ status["child"] = "none" /\ stack["child"] = <<>>
    /\ calls = <<>> /\ returned = <<>>
    /\ count = NoCount
    /\ last_ret[P] = NoRet
    /\ stack_mark_pointers = <<>>
    /\ \A k \in DOMAIN stack[P] : stack[P][k].fn = "main"
    /\ OutChars = <<>>
    /\ ~DoneEmitted
    /\ Exited(P) => out = <<Text("CPU affinity setup failed.")>>

\* C10: when sched_setaffinity fails the process exits with failure status
\* before any leak attempt: no fork (no child exists), no LeakByte call, no
\* FlushOracle, no ReturnsTrue, no leaked byte and no completion marker.
C10_SetupFailure ==
  /\ []C10_NoLeakAttempt
  /\ (res # 0) ~> (status[P] = "exit_failure")

C10_Witness ==
  /\ res # 0
  /\ status[P] = "exit_failure"
  /\ out = <<Text("CPU affinity setup failed.")>>


\* the cache lines an eviction flushed
FlushedLines(r) == {Line(r.flushed[k]) : k \in DOMAIN r.flushed}

\* C11: the eviction run a second time on the same own mark and the same
\* tracker top flushes the same set of cache lines and leaves the data cache
\* and the tracker as the first run left them; the tracker is as before both.
C11_EvictionIdempotent ==
  ev.phase = "twice" =>
    /\ ev.once.tracker = ev.tracker
    /\ ev.twice.tracker = ev.once.tracker
    /\ ev.twice.flushed = ev.once.flushed
    /\ FlushedLines(ev.twice) = FlushedLines(ev.once)
    /\ ev.twice.cache = ev.once.cache
    /\ ev.once.cache = ev.cache \ FlushedLines(ev.once)

C11_Witness ==
  /\ ev.phase = "twice"
  /\ variant = "ca"
  /\ ev.once.cache # ev.cache
  /\ Cardinality(FlushedLines(ev.once)) = 2
  /\ ev.twice.cache = ev.once.cache


DeadCodeOutput == \E k \in DOMAIN out : out[k] = Text("Dead code. Must not be printed.")

\* C12: the secret-access branch of ReturnsFalse is never entered: whenever
\* its condition is evaluated the returned value is false, ForceRead never
\* reads an oracle slot, "Dead code" is never printed, and no process exits
\* through the branch (the child never exits with failure, the victim only by
\* the setup or the convergence failure).
C12_DeadCodeUnreached ==
  /\ \A p \in Procs : At(p, "ReturnsFalse", "after") => ret_bool[p] = FALSE
  /\ forced_reads = <<>>
  /\ ~DeadCodeOutput
  /\ status["child"] # "exit_failure"
  /\ status[P] = "exit_failure" => (ConvergenceExceeded \/ res # 0)

C12_Witness ==
  /\ variant = "sa"
  /\ At(P, "ReturnsFalse", "after")
  /\ Returned(P, "ReturnsFalse", Top(P).counter - 1)
  /\ Top(P).counter = kRecursionDepth


\* C13: every stack_mark_pointers.back() and every pop_back() finds the
\* tracker non-empty: a ReturnsTrue frame about to pop its mark finds at least
\* two elements, a frame about to read the top finds at least one, and the
\* outermost frame finds exactly the sentinel LeakByte pushed.
C13_TrackerNeverEmptyOnUse ==
  /\ ~ub
  /\ At(P, "LeakByte", "pop") => Len(stack_mark_pointers) >= 1
  /\ At(P, "ReturnsTrue", "pop") => Len(stack_mark_pointers) >= 2
  /\ At(P, "ReturnsTrue", "evict") =>
       /\ Len(stack_mark_pointers) >= 1
       /\ Top(P).counter = kRecursionDepth => stack_mark_pointers = <<MarkAddr(2)>>

C13_Witness ==
  /\ At(P, "ReturnsTrue", "evict")
  /\ Top(P).counter = kRecursionDepth
  /\ stack_mark_pointers = <<MarkAddr(2)>>
  /\ ~ub


IsPrefix(a, b) == Len(a) <= Len(b) /\ a = SubSeq(b, 1, Len(a))

\* the operations of a sequence of log entries
Ops(es) == [k \in DOMAIN es |-> es[k].op]

\* what LeakByte itself did in the current trial: its own statements, and the
\* call and the return of the top-level ReturnsTrue (which returns with its
\* eviction)
LeakSteps ==
  Ops(SelectSeq(trial,
        LAMBDA e : \/ e.op \in {"FlushOracle", "push_sentinel", "pop_sentinel",
                                "AddHitAndRecomputeScores"}
                   \/ (e.op \in {"ReturnsTrue", "evict"} /\ e.counter = kRecursionDepth)))

TrialSteps ==
  <<"FlushOracle", "push_sentinel", "ReturnsTrue", "evict", "pop_sentinel",
    "AddHitAndRecomputeScores">>

\* C14: every trial of LeakByte does FlushOracle, the sentinel push, the
\* top-level ReturnsTrue(kRecursionDepth) to its return, the sentinel pop and
\* AddHitAndRecomputeScores in this order, each once; the decision is
\* requested with no ReturnsTrue frame live and the tracker empty, and the
\* trial numbered run + 1 is complete when its result is tested.
C14_TrialOrder ==
  /\ IsPrefix(LeakSteps, TrialSteps)
  /\ At(P, "LeakByte", "addhit") =>
       /\ LeakSteps = SubSeq(TrialSteps, 1, 5)
       /\ LiveDepth = 0
       /\ stack_mark_pointers = <<>>
  /\ (At(P, "LeakByte", "decided") \/ At(P, "LeakByte", "guard")) =>
       /\ LeakSteps = TrialSteps
       /\ count = [flush |-> run + 1, call |-> run + 1, addhit |-> run + 1]
  /\ LiveDepth > 0 => LeakSteps = SubSeq(TrialSteps, 1, 3)

C14_Witness ==
  /\ At(P, "LeakByte", "guard")
  /\ run = ConvergenceCeiling + 1
  /\ LeakSteps = TrialSteps


\* the positions of the trial log where op was done with this counter
Positions(op, counter) ==
  {k \in DOMAIN trial : trial[k].op = op /\ trial[k].counter = counter}

Evictions == SelectSeq(trial, LAMBDA e : e.op = "evict")

\* the stack slot of the ReturnsTrue frame with this counter: main, LeakByte,
\* then ReturnsTrue(kRecursionDepth) down to ReturnsTrue(0)
SlotOf(counter) == 3 + kRecursionDepth - counter

\* the step a ReturnsTrue frame waits for before it pops its mark
DescendantDone(counter) ==
  IF counter > 0 THEN Positions("evict", counter - 1)
  ELSE IF variant = "sa" THEN Positions("ReturnsFalse returned", kRecursionDepth)
  ELSE Positions("sched_yield", 0)

\* C15: in a trial every ReturnsTrue frame evicts once, right after popping
\* its own mark and after its descendant (or the base-case step) has returned;
\* the range goes from its own mark to its caller's mark, the sentinel for the
\* outermost frame; evictions come innermost first, kRecursionDepth + 1 of
\* them in a whole trial.
C15_EvictionOrder ==
  /\ \A k \in DOMAIN Evictions :
       LET e == Evictions[k] IN
         /\ e.counter = k - 1
         /\ e.start = MarkAddr(SlotOf(e.counter))
         /\ e.end = MarkAddr(SlotOf(e.counter) - 1)
  /\ \A c \in 0..kRecursionDepth :
       /\ Cardinality(Positions("evict", c)) <= 1
       /\ \A j \in Positions("evict", c) :
            /\ j > 1
            /\ trial[j - 1] = DidWith("pop_mark", c)
            /\ \E d \in DescendantDone(c) : d < j - 1
            /\ j = Len(trial) => trial[j].end = stack_mark_pointers[Len(stack_mark_pointers)]
  /\ Len(Evictions) <= kRecursionDepth + 1
  /\ (Len(stack[P]) >= 2 /\ stack[P][2].fn = "LeakByte"
        /\ stack[P][2].pc \in {"pop", "addhit", "decided", "guard"}
        /\ (stack[P][2].pc = "pop" => LiveDepth = 0))
       => Len(Evictions) = kRecursionDepth + 1

C15_Witness ==
  /\ At(P, "LeakByte", "pop")
  /\ run > 0
  /\ Len(Evictions) = kRecursionDepth + 1
  /\ Evictions[kRecursionDepth + 1].end = MarkAddr(2)


\* C16: every eviction starts strictly below its end, the frame's own mark
\* lying under the mark on top of the tracker, so the flush loop of the
\* cross-process variant runs at least once before the final flush of the end.
C16_StartBelowEnd ==
  /\ \A k \in DOMAIN trial :
       trial[k].op = "evict" => trial[k].start < trial[k].end
  /\ last_evict # NoEvict =>
       /\ last_evict.start < last_evict.end
       /\ variant = "ca" =>
            /\ Len(flushed) >= 2
            /\ flushed[1] = last_evict.start
  /\ \A k \in DOMAIN stack_mark_pointers :
       k > 1 => stack_mark_pointers[k] < stack_mark_pointers[k - 1]

C16_Witness ==
  /\ variant = "ca"
  /\ At(P, "ReturnsTrue", "pop")
  /\ Top(P).counter = 1
  /\ last_evict.start < last_evict.end
  /\ Len(flushed) >= 2


\* the steps k of the flush loop: k >= 0 with k * L < parent - own
LoopSteps(own, parent) == {k \in 0..(parent - own) : k * kCacheLineSize < parent - own}

\* the cache lines that overlap the closed range own..parent
Overlapping(own, parent) == {Line(a) : a \in own..parent}

C17_Flushes(own, parent, r) ==
  LET n == Cardinality(LoopSteps(own, parent)) IN
    /\ Len(r.flushed) = n + 1
    /\ \A k \in LoopSteps(own, parent) : r.flushed[k + 1] = own + k * kCacheLineSize
    /\ r.flushed[n + 1] = parent
    /\ FlushedLines(r) = Overlapping(own, parent)

\* C17: for own < parent the cross-process eviction flushes own + k * L for
\* every k >= 0 with k * L < parent - own, in this order, then parent, and
\* nothing else; every cache line overlapping own..parent is flushed and is out
\* of the data cache afterwards, whether or not parent - own is a multiple of L.
C17_FlushedAddresses ==
  (variant = "ca" /\ ev.phase \in {"once", "twice"}) =>
    LET own == ev.own
        parent == ev.tracker[Len(ev.tracker)]
    IN /\ own < parent
       /\ C17_Flushes(own, parent, ev.once)
       /\ ev.once.cache \cap Overlapping(own, parent) = {}

C17_Witness ==
  /\ variant = "ca"
  /\ ev.phase = "once"
  /\ (ev.tracker[2] - ev.own) % kCacheLineSize # 0
  /\ Len(ev.once.flushed) = 3
  /\ Cardinality(FlushedLines(ev.once)) = 3
  /\ Cardinality(ev.cache) = 3


\* the positions of the trial log where op was done, with any counter
Done(op) == {k \in DOMAIN trial : trial[k].op = op}

TrialComplete ==
  /\ Len(stack[P]) >= 2
  /\ stack[P][2].fn = "LeakByte"
  /\ \/ stack[P][2].pc \in {"addhit", "decided", "guard"}
     \/ stack[P][2].pc = "pop" /\ LiveDepth = 0

\* the outermost ReturnsFalse frames of the victim's stack
OutermostReturnsFalse ==
  {k \in DOMAIN stack[P] :
     stack[P][k].fn = "ReturnsFalse" /\ stack[P][k - 1].fn # "ReturnsFalse"}

C18_SingleProcess ==
  /\ Done("ReturnsFalse") = Positions("ReturnsFalse", kRecursionDepth)
  /\ Cardinality(Done("ReturnsFalse")) <= 1
  /\ Cardinality(Done("ReturnsFalse returned")) <= 1
  /\ Done("sched_yield") = {}
  /\ \A j \in Done("ReturnsFalse") :
       /\ j > 1
       /\ trial[j - 1] = DidWith("push_mark", 0)
       /\ \A c \in 0..kRecursionDepth : \E k \in Positions("push_mark", c) : k < j
       /\ \A k \in Done("pop_mark") \cup Done("evict") : k > j
  /\ \A j \in Done("ReturnsFalse returned") :
       /\ trial[j].counter = kRecursionDepth
       /\ \E k \in Done("ReturnsFalse") : k < j
       /\ \A k \in Done("pop_mark") \cup Done("evict") : k > j
  /\ Done("pop_mark") \cup Done("evict") # {} => Done("ReturnsFalse returned") # {}
  /\ TrialComplete => Cardinality(Done("ReturnsFalse")) = 1
  /\ \A k \in OutermostReturnsFalse :
       /\ stack[P][k].counter = kRecursionDepth
       /\ stack[P][k - 1].fn = "ReturnsTrue"
       /\ stack[P][k - 1].counter = 0
       /\ Len(stack_mark_pointers) = kRecursionDepth + 2

C18_CrossProcess ==
  /\ \A k \in DOMAIN stack[P] : stack[P][k].fn # "ReturnsFalse"
  /\ Done("ReturnsFalse") = {}
  /\ Done("ReturnsFalse returned") = {}
  /\ \A j \in Positions("push_mark", 0) :
       /\ j < Len(trial) => trial[j + 1] = Did("sched_yield")
       /\ j + 1 < Len(trial) => trial[j + 2] = DidWith("pop_mark", 0)
  /\ \A j \in Done("sched_yield") : j > 1 /\ trial[j - 1] = DidWith("push_mark", 0)
  /\ TrialComplete => Cardinality(Done("sched_yield")) = 1

\* C18: in the single-process variant every trial calls
\* ReturnsFalse(kRecursionDepth) once, from the ReturnsTrue frame with counter
\* 0, when all kRecursionDepth + 1 marks are pushed and none is popped and
\* nothing is evicted, and the call returns before the first pop and the first
\* eviction; in the cross-process variant the victim never calls ReturnsFalse,
\* its base case yields and goes on to its pop.
C18_BaseCase ==
  IF variant = "sa" THEN C18_SingleProcess ELSE C18_CrossProcess

C18_Witness ==
  /\ variant = "sa"
  /\ At(P, "ReturnsTrue", "pop")
  /\ Top(P).counter = 0
  /\ Returned(P, "ReturnsFalse", kRecursionDepth)
  /\ Cardinality(Done("ReturnsFalse")) = 1
  /\ Done("pop_mark") = {}
  /\ run > 0


InLeakByte == Live(P, "LeakByte", 0)

\* the trial counter over one step: 0 when LeakByte is entered, and from then
\* to the end of the call unchanged or one higher
C19_RunStep ==
  /\ (~InLeakByte /\ InLeakByte') => run' = 0
  /\ (InLeakByte /\ InLeakByte') => run' \in {run, run + 1}

\* the victim has ended: with the completion marker written and success, or
\* with a failure exit
C19_Ended ==
  \/ status[P] = "exit_success" /\ DoneEmitted
  \/ status[P] = "exit_failure"

\* C19: whatever the collaborator answers, the victim's run ends (under fair
\* scheduling), either with the completion marker and success or with a
\* failure exit; every LeakByte call ends, after at most ConvergenceCeiling + 2
\* trials; the trial counter is 0 when a LeakByte call starts and only
\* increases during it.
C19_LeakRunTerminates ==
  /\ <>[]C19_Ended
  /\ []<>~InLeakByte
  /\ [](run <= ConvergenceCeiling + 1)
  /\ [](status[P] = "running" \/ C19_Ended)
  /\ [][C19_RunStep]_vars

C19_Witness ==
  /\ policy = "free"
  /\ status[P] = "exit_success"
  /\ DoneEmitted
  /\ Len(returned) = SecretLen
  /\ run = ConvergenceCeiling + 1

============================================================================
